---- MODULE Spec2Model ----
(***************************************************************************)
(* bash_map: a command line tool that reads and writes a JSON document     *)
(* through RFC 6901 JSON pointers (src/src/main.rs).                       *)
(*                                                                         *)
(* One run of the program is one action: it takes the command line         *)
(* (TopLevel), runs the sub command and leaves what it printed and how it  *)
(* exited.  Text that is cut into characters by the code (pointers, keys,  *)
(* tokens) is a sequence of one-character strings.  A JSON text is the     *)
(* tree it writes down together with its layout; parsing builds a Value    *)
(* from it, printing writes a Value back as text.                          *)
(***************************************************************************)
EXTENDS Integers, Sequences, FiniteSets, TLC

VARIABLES
    arg,      \* the command line (TopLevel)
    pc,       \* "main" while the process runs, "exited" after
    value,    \* the document get and set hold in memory
    stdout,   \* what the process printed
    exit      \* how the process exited

vars == <<arg, pc, value, stdout, exit>>

-----------------------------------------------------------------------------
(* Characters and text helpers (Rust's str methods used by the code).      *)

SL == "/"
TL == "~"
BS == "\\"
SQ == "'"
DQ == "\""

starts_with(s, c) == Len(s) > 0 /\ s[1] = c

\* str::replace: every non-overlapping match of pat, left to right.
RECURSIVE replace(_, _, _)
replace(s, pat, to) ==
    IF Len(s) < Len(pat) THEN s
    ELSE IF SubSeq(s, 1, Len(pat)) = pat
         THEN to \o replace(SubSeq(s, Len(pat) + 1, Len(s)), pat, to)
         ELSE <<s[1]>> \o replace(Tail(s), pat, to)

\* str::split(c): the pieces between the occurrences of c, empty pieces kept.
RECURSIVE split(_, _)
split(s, c) ==
    IF \A i \in 1..Len(s) : s[i] # c THEN <<s>>
    ELSE LET i == CHOOSE j \in 1..Len(s) :
                      s[j] = c /\ \A k \in 1..(j - 1) : s[k] # c
         IN  <<SubSeq(s, 1, i - 1)>> \o split(SubSeq(s, i + 1, Len(s)), c)

-----------------------------------------------------------------------------
(* serde_json::Value: the six variants.  An Object holds its entries in    *)
(* the order they were inserted, keys unique.                              *)

Null == [t |-> "null"]
Bool(b) == [t |-> "boolean", b |-> b]
Number(n) == [t |-> "number", n |-> n]
String(s) == [t |-> "string", s |-> s]
Array(list) == [t |-> "array", list |-> list]
Object(map) == [t |-> "object", map |-> map]

Entry(key, val) == [key |-> key, val |-> val]

\* Map: position of key among the entries, 0 when absent.
map_index(map, key) ==
    IF \E i \in 1..Len(map) : map[i].key = key
    THEN CHOOSE i \in 1..Len(map) : map[i].key = key
    ELSE 0

\* Map::insert: an existing key keeps its place and takes the new value.
map_insert(map, key, val) ==
    LET i == map_index(map, key)
    IN  IF i = 0 THEN Append(map, Entry(key, val))
        ELSE [map EXCEPT ![i] = Entry(key, val)]

\* map.entry(key).or_insert(val): an existing key is left as it is.
entry_or_insert(map, key, val) ==
    IF map_index(map, key) = 0 THEN Append(map, Entry(key, val)) ELSE map

\* The i-th child of a container, and the container with that child replaced.
child(v, i) == IF v.t = "object" THEN v.map[i].val ELSE v.list[i]

with_child(v, i, c) ==
    IF v.t = "object" THEN Object([v.map EXCEPT ![i].val = c])
    ELSE Array([v.list EXCEPT ![i] = c])

\* A location inside a value is the sequence of child positions leading to it
\* (what a &mut Value borrowed out of the document points at).
RECURSIVE deref(_, _)
deref(v, path) ==
    IF path = <<>> THEN v ELSE deref(child(v, Head(path)), Tail(path))

RECURSIVE assign(_, _, _)
assign(v, path, new) ==
    IF path = <<>> THEN new
    ELSE with_child(v, Head(path), assign(child(v, Head(path)), Tail(path), new))

\* value_eq with the entries of two Objects compared in the order they are held.
RECURSIVE value_eq_ordered(_, _)
value_eq_ordered(a, b) ==
    IF a.t # b.t THEN FALSE
    ELSE CASE a.t = "null" -> TRUE
           [] a.t = "boolean" -> a.b = b.b
           [] a.t = "number" -> a.n = b.n
           [] a.t = "string" -> a.s = b.s
           [] a.t = "array" ->
                /\ Len(a.list) = Len(b.list)
                /\ \A i \in 1..Len(a.list) : value_eq_ordered(a.list[i], b.list[i])
           [] a.t = "object" ->
                /\ Len(a.map) = Len(b.map)
                /\ \A i \in 1..Len(a.map) :
                      /\ a.map[i].key = b.map[i].key
                      /\ value_eq_ordered(a.map[i].val, b.map[i].val)

\* Value's PartialEq: same variant and equal contents; Objects by key, whatever
\* the order of the entries.
RECURSIVE value_eq(_, _)
value_eq(a, b) ==
    IF a.t # b.t THEN FALSE
    ELSE CASE a.t = "null" -> TRUE
           [] a.t = "boolean" -> a.b = b.b
           [] a.t = "number" -> a.n = b.n
           [] a.t = "string" -> a.s = b.s
           [] a.t = "array" ->
                /\ Len(a.list) = Len(b.list)
                /\ \A i \in 1..Len(a.list) : value_eq(a.list[i], b.list[i])
           [] a.t = "object" ->
                /\ Len(a.map) = Len(b.map)
                /\ \A i \in 1..Len(a.map) :
                      LET j == map_index(b.map, a.map[i].key)
                      IN  j # 0 /\ value_eq(a.map[i].val, b.map[j].val)

-----------------------------------------------------------------------------
(* Text on the command line, in the environment and on standard output.    *)
(* JsonText(layout, syn): a JSON text that writes the tree syn down (an    *)
(* object as written may repeat a key).  Word(w): a text that is not JSON. *)

JsonText(layout, syn) == [k |-> "json", layout |-> layout, syn |-> syn]
Word(w) == [k |-> "word", w |-> w]
EmptyString == Word("")

\* serde_json's deserializer: builds the Value a JSON tree denotes; a repeated
\* key keeps its first place and its last value.
RECURSIVE build(_)
RECURSIVE build_map(_, _)
build(syn) ==
    CASE syn.t = "array" -> Array([i \in 1..Len(syn.list) |-> build(syn.list[i])])
      [] syn.t = "object" -> Object(build_map(syn.map, <<>>))
      [] OTHER -> syn

build_map(ents, acc) ==
    IF ents = <<>> THEN acc
    ELSE build_map(Tail(ents), map_insert(acc, Head(ents).key, build(Head(ents).val)))

\* from_str::<Value>
from_str_value(text) ==
    IF text.k = "json" THEN [ok |-> TRUE, v |-> build(text.syn)]
    ELSE [ok |-> FALSE, v |-> Null]

\* from_str::<Map<String, Value>>: only a JSON object is accepted.
from_str_map(text) ==
    IF text.k = "json" /\ text.syn.t = "object"
    THEN [ok |-> TRUE, v |-> build_map(text.syn.map, <<>>)]
    ELSE [ok |-> FALSE, v |-> <<>>]

value_from_str(text) == from_str_value(text)

value_printer(pretty, v) ==
    JsonText(IF pretty THEN "pretty" ELSE "compact", v)

-----------------------------------------------------------------------------
(* Pointer (the command line's pointer argument).                          *)

EmptyPointerSpellings == {<<>>, <<SQ, SQ>>, <<DQ, DQ>>}

\* Pointer::from_str without the two quoted spellings of the empty pointer.
Pointer_from_str_unquoted(s) ==
    IF s = <<>> THEN <<>> ELSE replace(s, <<BS, SL>>, <<SL>>)

\* Pointer::from_str: the text the Pointer keeps (inner).
Pointer_from_str(s) ==
    IF s \in EmptyPointerSpellings THEN <<>>
    ELSE replace(s, <<BS, SL>>, <<SL>>)

DigitChars == {"0", "1", "2", "3", "4", "5", "6", "7", "8", "9"}

DigitVal(c) ==
    CASE c = "0" -> 0 [] c = "1" -> 1 [] c = "2" -> 2 [] c = "3" -> 3
      [] c = "4" -> 4 [] c = "5" -> 5 [] c = "6" -> 6 [] c = "7" -> 7
      [] c = "8" -> 8 [] c = "9" -> 9

RECURSIVE digits_value(_, _)
digits_value(s, acc) ==
    IF s = <<>> THEN acc ELSE digits_value(Tail(s), 10 * acc + DigitVal(Head(s)))

\* usize::MAX as it is written, on a target with 64-bit pointers.
UsizeMax ==
    <<"1", "8", "4", "4", "6", "7", "4", "4", "0", "7",
      "3", "7", "0", "9", "5", "5", "1", "6", "1", "5">>

\* The digits without their leading zeros.
RECURSIVE significant(_)
significant(digits) ==
    IF digits # <<>> /\ Head(digits) = "0" THEN significant(Tail(digits)) ELSE digits

\* a > b for two numerals of the same length.
RECURSIVE numeral_gt(_, _)
numeral_gt(a, b) ==
    IF a = <<>> THEN FALSE
    ELSE IF Head(a) # Head(b) THEN DigitVal(Head(a)) > DigitVal(Head(b))
    ELSE numeral_gt(Tail(a), Tail(b))

\* The checked arithmetic of str::parse::<usize>: the number does not fit.
overflows(digits) ==
    LET sig == significant(digits)
    IN  \/ Len(sig) > Len(UsizeMax)
        \/ Len(sig) = Len(UsizeMax) /\ numeral_gt(sig, UsizeMax)

\* The longest numeral whose value is kept exactly; a longer one that fits in
\* usize is kept as Huge, which is beyond the length of every list.
ExactDigits == 9
Huge == 1000000000

\* str::parse::<usize>: an optional leading '+', then one or more digits, the
\* number they write not past usize::MAX.
usize_parse(s) ==
    LET digits == IF starts_with(s, "+") THEN Tail(s) ELSE s
    IN  IF /\ digits # <<>>
           /\ \A i \in 1..Len(digits) : digits[i] \in DigitChars
           /\ ~overflows(digits)
        THEN [some |-> TRUE,
              n |-> IF Len(significant(digits)) <= ExactDigits
                    THEN digits_value(significant(digits), 0) ELSE Huge]
        ELSE [some |-> FALSE, n |-> 0]

\* parse_index without the test for a leading '+'.
parse_index_plus(s) ==
    IF starts_with(s, "0") /\ Len(s) # 1
    THEN [some |-> FALSE, n |-> 0]
    ELSE usize_parse(s)

parse_index(s) ==
    IF starts_with(s, "+") \/ (starts_with(s, "0") /\ Len(s) # 1)
    THEN [some |-> FALSE, n |-> 0]
    ELSE usize_parse(s)

\* decode with the two replacements in the other order.
decode_tilde_first(x) == replace(replace(x, <<TL, "0">>, <<TL>>), <<TL, "1">>, <<SL>>)

\* The iterator pointer_mut folds over: the pieces after the first '/', each
\* with ~1 and then ~0 decoded.
decode(x) == replace(replace(x, <<TL, "1">>, <<SL>>), <<TL, "0">>, <<TL>>)

tokens(pointer) ==
    LET parts == Tail(split(pointer, SL))
    IN  [i \in 1..Len(parts) |-> decode(parts[i])]

\* pointer_inner with the last arm leaving a scalar as it is and returning None
\* (as serde_json's own pointer_mut does).
pointer_inner_keep_scalar(target, token) ==
    CASE target.t = "object" ->
            LET map == entry_or_insert(target.map, token, Null)
            IN  [target |-> Object(map), child |-> map_index(map, token)]
      [] target.t = "array" ->
            LET x == parse_index(token)
            IN  [target |-> target,
                 child |-> IF x.some /\ x.n < Len(target.list) THEN x.n + 1 ELSE 0]
      [] OTHER -> [target |-> target, child |-> 0]

\* pointer_inner with the last arm replacing the scalar and then taking its
\* `_ => None` branch.
pointer_inner_replace_none(target, token) ==
    CASE target.t = "object" ->
            LET map == entry_or_insert(target.map, token, Null)
            IN  [target |-> Object(map), child |-> map_index(map, token)]
      [] target.t = "array" ->
            LET x == parse_index(token)
            IN  [target |-> target,
                 child |-> IF x.some /\ x.n < Len(target.list) THEN x.n + 1 ELSE 0]
      [] OTHER ->
            LET map == entry_or_insert(<<>>, token, Null)
            IN  [target |-> Object(map), child |-> 0]

\* pointer_inner with the Object arm looking the key up without inserting it.
pointer_inner_no_insert(target, token) ==
    CASE target.t = "object" ->
            [target |-> target, child |-> map_index(target.map, token)]
      [] target.t = "array" ->
            LET x == parse_index(token)
            IN  [target |-> target,
                 child |-> IF x.some /\ x.n < Len(target.list) THEN x.n + 1 ELSE 0]
      [] OTHER ->
            LET map == entry_or_insert(<<>>, token, Null)
            IN  [target |-> Object(map), child |-> map_index(map, token)]

\* pointer_inner with the Array arm growing the list by a Null when the index
\* does not reach an element (and still returning None).
pointer_inner_push(target, token) ==
    CASE target.t = "object" ->
            LET map == entry_or_insert(target.map, token, Null)
            IN  [target |-> Object(map), child |-> map_index(map, token)]
      [] target.t = "array" ->
            LET x == parse_index(token)
            IN  IF x.some /\ x.n < Len(target.list)
                THEN [target |-> target, child |-> x.n + 1]
                ELSE [target |-> Array(Append(target.list, Null)), child |-> 0]
      [] OTHER ->
            LET map == entry_or_insert(<<>>, token, Null)
            IN  [target |-> Object(map), child |-> map_index(map, token)]

\* pointer_inner: one step from target by token.  target is what the step
\* leaves in place of the value it was given; child is the position of the
\* value the step returns a reference to, 0 for None.
pointer_inner(target, token) ==
    CASE target.t = "object" ->
            LET map == entry_or_insert(target.map, token, Null)
            IN  [target |-> Object(map), child |-> map_index(map, token)]
      [] target.t = "array" ->
            LET x == parse_index(token)
            IN  [target |-> target,
                 child |-> IF x.some /\ x.n < Len(target.list) THEN x.n + 1 ELSE 0]
      [] OTHER ->
            LET map == entry_or_insert(<<>>, token, Null)
            IN  [target |-> Object(map), child |-> map_index(map, token)]

\* try_fold(value, pointer_inner): stops at the first None; what the steps
\* before it wrote into the document stays written.
RECURSIVE try_fold(_, _, _)
try_fold(doc, path, toks) ==
    IF toks = <<>> THEN [some |-> TRUE, doc |-> doc, path |-> path]
    ELSE LET step == pointer_inner(deref(doc, path), Head(toks))
             next == assign(doc, path, step.target)
         IN  IF step.child = 0 THEN [some |-> FALSE, doc |-> next, path |-> path]
             ELSE try_fold(next, Append(path, step.child), Tail(toks))

pointer_mut(doc, pointer) ==
    IF pointer = <<>> THEN [some |-> TRUE, doc |-> doc, path |-> <<>>]
    ELSE IF ~starts_with(pointer, SL) THEN [some |-> FALSE, doc |-> doc, path |-> <<>>]
    ELSE try_fold(doc, <<>>, tokens(pointer))

\* get_fold with a missing key read as Null instead of ending the traversal.
RECURSIVE get_fold_default(_, _)
get_fold_default(target, toks) ==
    IF toks = <<>> THEN [some |-> TRUE, v |-> target]
    ELSE CASE target.t = "object" ->
                LET i == map_index(target.map, Head(toks))
                IN  IF i = 0 THEN [some |-> TRUE, v |-> Null]
                    ELSE get_fold_default(target.map[i].val, Tail(toks))
           [] target.t = "array" ->
                LET x == parse_index(Head(toks))
                IN  IF x.some /\ x.n < Len(target.list)
                    THEN get_fold_default(target.list[x.n + 1], Tail(toks))
                    ELSE [some |-> FALSE, v |-> Null]
           [] OTHER -> [some |-> FALSE, v |-> Null]

\* Value::pointer (serde_json), which do_get calls: the read-only traversal.
RECURSIVE get_fold(_, _)
get_fold(target, toks) ==
    IF toks = <<>> THEN [some |-> TRUE, v |-> target]
    ELSE CASE target.t = "object" ->
                LET i == map_index(target.map, Head(toks))
                IN  IF i = 0 THEN [some |-> FALSE, v |-> Null]
                    ELSE get_fold(target.map[i].val, Tail(toks))
           [] target.t = "array" ->
                LET x == parse_index(Head(toks))
                IN  IF x.some /\ x.n < Len(target.list)
                    THEN get_fold(target.list[x.n + 1], Tail(toks))
                    ELSE [some |-> FALSE, v |-> Null]
           [] OTHER -> [some |-> FALSE, v |-> Null]

pointer_get(doc, pointer) ==
    IF pointer = <<>> THEN [some |-> TRUE, v |-> doc]
    ELSE IF ~starts_with(pointer, SL) THEN [some |-> FALSE, v |-> Null]
    ELSE get_fold(doc, tokens(pointer))

-----------------------------------------------------------------------------
(* The inputs the runs are drawn from.                                     *)

\* Keys and string contents, as characters.
Ka == <<"a">>
K0 == <<"0">>
K1 == <<"1">>
Kempty == <<>>
Kslash == <<SL>>
Ktilde == <<TL>>
Kaslash == <<"a", SL>>
Kabs == <<"a", BS>>
Kt0 == <<TL, "0">>
Kt1 == <<TL, "1">>
Kt01 == <<TL, "0", "1">>

\* Longest key the exhaustive key set holds, in characters.
MaxKeyLen == 2

EscChars == {SL, TL, "0", "1"}

\* Object keys: every text of at most MaxKeyLen characters over EscChars, and
\* some longer ones.
EscKeys ==
    UNION {[1..n -> EscChars] : n \in 0..MaxKeyLen} \cup {Ka, Kaslash, Kabs, Kt01}

\* RFC 6901 escaping of a key into a reference token, as the caller writes it.
encode(k) == replace(replace(k, <<TL>>, <<TL, "0">>), <<SL>>, <<TL, "1">>)

RECURSIVE entries_of(_)
entries_of(keys) ==
    IF keys = {} THEN <<>>
    ELSE LET k == CHOOSE x \in keys : TRUE
         IN  <<Entry(k, String(k))>> \o entries_of(keys \ {k})

\* The process environment: the variables that are set, with their text.
Environment ==
    [ARR |-> JsonText("compact",
                Array(<<Number(1), Object(<<Entry(Ka, Number(2))>>)>>)),
     NUM |-> JsonText("compact", Number(1)),
     STR |-> JsonText("compact", String(Ka)),
     OBJ |-> JsonText("compact", Object(<<Entry(Ka, Number(1))>>)),
     BAD |-> Word("{not json ")]

\* std::env::var(input).unwrap_or(String::new()).  A JSON text is the name of
\* no variable of the environment.
var(input) ==
    IF input.k = "word" /\ input.w \in DOMAIN Environment
    THEN Environment[input.w]
    ELSE EmptyString

variable_or_object(input) ==
    LET x == from_str_map(input)
    IN  IF x.ok THEN Object(x.v)
        ELSE LET item == from_str_value(var(input))
             IN  IF item.ok THEN item.v ELSE Object(<<>>)

variable_or_value(input) ==
    LET x == from_str_value(input)
    IN  IF x.ok THEN x.v
        ELSE LET item == from_str_value(var(input))
             IN  IF item.ok THEN item.v ELSE Null

-----------------------------------------------------------------------------
(* The sub commands.                                                       *)

\* do_set: the local `value` as it stands when it is printed, after the
\* traversal and, when the location was reached, the write through the handle.
do_set_value(args) ==
    LET doc == variable_or_object(args.variable)
        val == pointer_mut(doc, Pointer_from_str(args.pointer))
    IN  IF val.some THEN assign(val.doc, val.path, value_from_str(args.value).v)
        ELSE val.doc

do_set(args, pretty) == value_printer(pretty, do_set_value(args))

do_get(args, pretty) ==
    LET val == pointer_get(variable_or_object(args.variable),
                           Pointer_from_str(args.pointer))
    IN  IF val.some THEN value_printer(pretty, val.v) ELSE EmptyString

do_compare(args) ==
    value_eq(variable_or_object(args.first), variable_or_object(args.second))

do_type(args) == Word(variable_or_value(args.variable).t)

\* println! of main: the text, or the text as a quoted, escaped string literal.
println(escaped, output) == [printed |-> TRUE, escaped |-> escaped, text |-> output]
NoOutput == [printed |-> FALSE, escaped |-> FALSE, text |-> EmptyString]

Success == [code |-> 0, stderr |-> EmptyString]
Failure(msg) == [code |-> 1, stderr |-> Word(msg)]

-----------------------------------------------------------------------------
(* Command lines.                                                          *)

\* Longest pointer, in tokens.
MaxTokens == 2

\* Reference tokens as they are written in a pointer.
FirstTokens ==
    {Ka, K0, K1, <<"2">>, Kempty, <<"0", "1">>, <<"+", "1">>, <<"-">>,
     Ktilde, Kt0, Kt1, Kt01, <<"a", TL, "1">>, Kabs,
     <<TL, "0", "0">>, <<TL, "0", "0", "1">>,
     <<"-", "1">>, <<"1", "0">>, <<"1", "a">>, <<"+">>, <<"0", "0">>,
     <<"1", "8", "4", "4", "6", "7", "4", "4", "0", "7",
       "3", "7", "0", "9", "5", "5", "1", "6", "1", "6">>}

NextTokens == {Ka, K0, K1, <<"2">>}

\* Token sequences of exactly n tokens.
TokenSeqsOf(n) == {<<f>> \o r : f \in FirstTokens, r \in [1..(n - 1) -> NextTokens]}

TokenSeqs == UNION {TokenSeqsOf(n) : n \in 1..MaxTokens}

\* The sequences that are also written in the other two ways below.
ShortTokenSeqs == UNION {TokenSeqsOf(n) : n \in 1..(MaxTokens - 1)}

RECURSIVE join(_)
join(ts) == IF ts = <<>> THEN <<>> ELSE <<SL>> \o Head(ts) \o join(Tail(ts))

\* Pointer arguments: well formed, with the leading slash written \/, without
\* the leading slash, and the spellings of the empty pointer.
RawPointers ==
    EmptyPointerSpellings
    \cup {join(ts) : ts \in TokenSeqs}
    \cup {<<BS>> \o join(ts) : ts \in ShortTokenSeqs}
    \cup {Tail(join(ts)) : ts \in ShortTokenSeqs}
    \cup {<<SL>> \o encode(k) : k \in EscKeys}

ScalarsDoc ==
    Object(<<Entry(Ka, Null), Entry(K0, Bool(TRUE)), Entry(K1, Number(7)),
             Entry(Ktilde, String(Ka))>>)

ArraysDoc ==
    Object(<<Entry(Ka, Array(<<Number(1), Object(<<Entry(Ka, Number(2))>>)>>)),
             Entry(K0, Array(<<>>))>>)

\* Keys that need escaping in a pointer (and some that do not), each bound to
\* its own text.
SpecialKeysDoc ==
    Object(entries_of({Kempty, Kslash, Ktilde, Kt0, Kt1, Kt01, Kaslash, Kabs,
                       <<SL, TL>>, <<"1">>}))

NestedDoc ==
    Object(<<Entry(Kabs, Object(<<Entry(Ka, Number(3))>>)),
             Entry(Ka, Object(<<Entry(Ka, Object(<<Entry(K0, Number(4))>>))>>))>>)

RepeatedKeyDoc ==
    Object(<<Entry(Ka, Number(1)), Entry(K1, Number(2)), Entry(Ka, String(K0))>>)

\* The variable argument of get and set.
Variables ==
    {JsonText("compact", Object(<<>>)),
     JsonText("compact", ScalarsDoc),
     JsonText("compact", ArraysDoc),
     JsonText("compact", SpecialKeysDoc),
     JsonText("spaced", NestedDoc),
     JsonText("compact", RepeatedKeyDoc),
     JsonText("compact", Array(<<Number(1), Number(2)>>)),
     Word("ARR"), Word("NUM"), Word("UNSET")}

\* The value argument of set.
ValueTexts ==
    {JsonText("compact", Null),
     JsonText("compact", Bool(FALSE)),
     JsonText("compact", Number(9)),
     JsonText("compact", String(Ka)),
     JsonText("compact", Array(<<Number(9)>>)),
     JsonText("spaced", Object(<<Entry(K0, Number(9))>>)),
     Word("nine")}

\* The arguments of compare and type.
Comparands ==
    {JsonText("compact", Object(<<>>)),
     JsonText("compact", Object(<<Entry(Ka, Number(5)), Entry(K1, Number(1))>>)),
     JsonText("spaced", Object(<<Entry(K1, Number(1)), Entry(Ka, Number(5))>>)),
     JsonText("compact", Object(<<Entry(K1, Number(1)), Entry(Ka, Number(6))>>)),
     JsonText("compact", Object(<<Entry(K1, Number(1))>>)),
     JsonText("compact", ArraysDoc),
     JsonText("compact", Number(1)),
     JsonText("compact", String(Ka)),
     JsonText("compact", Null),
     JsonText("compact", Bool(TRUE)),
     JsonText("compact", Array(<<Number(1)>>)),
     JsonText("compact", Array(<<Number(1), Number(2)>>)),
     JsonText("compact", Array(<<Number(2), Number(1)>>)),
     Word("ARR"), Word("NUM"), Word("STR"), Word("OBJ"), Word("BAD"), Word("UNSET")}

-----------------------------------------------------------------------------------------------------------------------------------------------------
(* main: a process is started with a command line, runs it once and exits; *)
(* the state it leaves is what it printed and how it exited.               *)

Switches == {[pretty |-> p, escaped |-> e] : p \in BOOLEAN, e \in BOOLEAN}

\* TopLevel: the switches and the sub command with its positional arguments,
\* as written on the command line.
InitLine(sw) ==
    [command |-> "init", pretty |-> sw.pretty, escaped |-> sw.escaped]

GetLine(sw, variable, pointer) ==
    [command |-> "get", pretty |-> sw.pretty, escaped |-> sw.escaped,
     variable |-> variable, pointer |-> pointer]

SetLine(sw, variable, pointer, val) ==
    [command |-> "set", pretty |-> sw.pretty, escaped |-> sw.escaped,
     variable |-> variable, pointer |-> pointer, value |-> val]

CompareLine(sw, first, second) ==
    [command |-> "compare", pretty |-> sw.pretty, escaped |-> sw.escaped,
     first |-> first, second |-> second]

TypeLine(sw, variable) ==
    [command |-> "type", pretty |-> sw.pretty, escaped |-> sw.escaped,
     variable |-> variable]

Init ==
    /\ pc = "main"
    /\ value = Null
    /\ stdout = NoOutput
    /\ exit = Success
    /\ \E sw \in Switches :
        \/ arg = InitLine(sw)
        \/ \E variable \in Variables, pointer \in RawPointers :
              arg = GetLine(sw, variable, pointer)
        \/ \E variable \in Variables, pointer \in RawPointers, val \in ValueTexts :
              arg = SetLine(sw, variable, pointer, val)
        \/ \E first \in Comparands, second \in Comparands :
              arg = CompareLine(sw, first, second)
        \/ \E variable \in Comparands : arg = TypeLine(sw, variable)

\* argh::from_env: a value argument of set that is not JSON is refused
\* (value_from_str) and the process exits before main runs a sub command.
RejectValue ==
    /\ pc = "main"
    /\ arg.command = "set"
    /\ ~value_from_str(arg.value).ok
    /\ pc' = "exited"
    /\ exit' = Failure("usage")
    /\ UNCHANGED <<arg, value, stdout>>

RunInit ==
    /\ pc = "main"
    /\ arg.command = "init"
    /\ pc' = "exited"
    /\ stdout' = println(arg.escaped, JsonText("compact", Object(<<>>)))
    /\ exit' = Success
    /\ UNCHANGED <<arg, value>>

RunGet ==
    /\ pc = "main"
    /\ arg.command = "get"
    /\ pc' = "exited"
    /\ value' = variable_or_object(arg.variable)
    /\ stdout' = println(arg.escaped, do_get(arg, arg.pretty))
    /\ exit' = Success
    /\ UNCHANGED arg

RunSet ==
    /\ pc = "main"
    /\ arg.command = "set"
    /\ value_from_str(arg.value).ok
    /\ pc' = "exited"
    /\ value' = do_set_value(arg)
    /\ stdout' = println(arg.escaped, value_printer(arg.pretty, value'))
    /\ exit' = Success
    /\ UNCHANGED arg

RunCompare ==
    /\ pc = "main"
    /\ arg.command = "compare"
    /\ pc' = "exited"
    /\ IF do_compare(arg)
       THEN stdout' = println(arg.escaped, Word("true")) /\ exit' = Success
       ELSE stdout' = NoOutput /\ exit' = Failure("false")
    /\ UNCHANGED <<arg, value>>

RunType ==
    /\ pc = "main"
    /\ arg.command = "type"
    /\ pc' = "exited"
    /\ stdout' = println(arg.escaped, do_type(arg))
    /\ exit' = Success
    /\ UNCHANGED <<arg, value>>

Next ==
    \/ RejectValue
    \/ RunInit
    \/ RunGet
    \/ RunSet
    \/ RunCompare
    \/ RunType

Spec == Init /\ [][Next]_vars

-----
(* What the claims speak of, read off the state a run leaves.              *)

Exited == pc = "exited"
IsGet == Exited /\ arg.command = "get"
\* A set whose command line was accepted (the value argument is JSON).
IsSet == Exited /\ arg.command = "set" /\ exit.code = 0
IsCompare == Exited /\ arg.command = "compare"

\* The document as it was parsed from the variable argument.
InputDoc == variable_or_object(arg.variable)
\* The pointer as the sub command receives it.
Inner == Pointer_from_str(arg.pointer)
NewValue == value_from_str(arg.value).v
\* The JSON document the run printed.
PrintedDoc == stdout.text.syn
PrintsJson == stdout.printed /\ stdout.text.k = "json"

Keys(v) == {v.map[i].key : i \in 1..Len(v.map)}
Bound(v, k) == v.map[CHOOSE i \in 1..Len(v.map) : v.map[i].key = k].val

IsScalar(v) == v.t \in {"null", "boolean", "number", "string"}

\* The value bound to the first of a chain of nested single-key Objects that
\* ends in v.
RECURSIVE Chain(_, _)
Chain(toks, v) ==
    IF toks = <<>> THEN v ELSE Object(<<Entry(Head(toks), Chain(Tail(toks), v))>>)

\* An array index as RFC 6901 writes it: "0", or digits with no leading zero.
ValidIndex(tok) ==
    /\ tok # <<>>
    /\ \A i \in 1..Len(tok) : tok[i] \in DigitChars
    /\ tok[1] = "0" => Len(tok) = 1

\* The number a valid index writes (Huge when it has more than ExactDigits
\* digits: no list is that long).
IndexOf(tok) == IF Len(tok) <= ExactDigits THEN digits_value(tok, 0) ELSE Huge

\* Read-only resolution of a token sequence inside v.
RECURSIVE Resolve(_, _)
Resolve(v, toks) ==
    IF toks = <<>> THEN [ok |-> TRUE, v |-> v]
    ELSE IF v.t = "object" /\ Head(toks) \in Keys(v)
         THEN Resolve(Bound(v, Head(toks)), Tail(toks))
    ELSE IF v.t = "array" /\ ValidIndex(Head(toks)) /\ IndexOf(Head(toks)) < Len(v.list)
         THEN Resolve(v.list[IndexOf(Head(toks)) + 1], Tail(toks))
    ELSE [ok |-> FALSE, v |-> Null]

\* The mutator reaches the location addressed by toks inside v: only an Array
\* step with an invalid or out-of-range index stops it.
RECURSIVE SetReaches(_, _)
SetReaches(v, toks) ==
    IF toks = <<>> THEN TRUE
    ELSE IF v.t = "object"
         THEN (Head(toks) \in Keys(v)) => SetReaches(Bound(v, Head(toks)), Tail(toks))
    ELSE IF v.t = "array"
         THEN /\ ValidIndex(Head(toks))
              /\ IndexOf(Head(toks)) < Len(v.list)
              /\ SetReaches(v.list[IndexOf(Head(toks)) + 1], Tail(toks))
    ELSE TRUE

Malformed == Inner # <<>> /\ ~starts_with(Inner, SL)
SetFails == Malformed \/ (starts_with(Inner, SL) /\ ~SetReaches(InputDoc, tokens(Inner)))

-----------------------------------------------------------------------------
\* C1: a set on an Object root through a pointer /k1/.../kn (n >= 1) whose
\* first token k1 is not a key of the root prints the document with exactly one
\* key added, k1, bound to the chain of nested single-key Objects over k2..kn
\* that ends in the new value; every key the document had keeps its value.
C1_AutoCreate ==
    (IsSet /\ starts_with(Inner, SL)) =>
        LET doc == InputDoc
            toks == tokens(Inner)
            out == PrintedDoc
        IN  (doc.t = "object" /\ Head(toks) \notin Keys(doc))
            => /\ PrintsJson
               /\ out.t = "object"
               /\ Len(out.map) = Len(doc.map) + 1
               /\ Keys(out) = Keys(doc) \cup {Head(toks)}
               /\ Bound(out, Head(toks)) = Chain(Tail(toks), NewValue)
               /\ \A k \in Keys(doc) : Bound(out, k) = Bound(doc, k)

C1_Witness ==
    /\ IsSet
    /\ InputDoc.t = "object"
    /\ InputDoc.map # <<>>
    /\ starts_with(Inner, SL)
    /\ Len(tokens(Inner)) = 2
    /\ Head(tokens(Inner)) \notin Keys(InputDoc)
    /\ PrintedDoc = Object(Append(InputDoc.map,
                        Entry(Head(tokens(Inner)), Chain(Tail(tokens(Inner)), NewValue))))

\* C2: a set that does not reach the addressed location (the pointer is not
\* empty and does not start with '/', or an Array step has an invalid or
\* out-of-range index) prints the document exactly as it was parsed.
C2_FailedSetPrintsInput ==
    IsSet =>
        LET doc == InputDoc
            inner == Inner
            fails == \/ inner # <<>> /\ ~starts_with(inner, SL)
                     \/ starts_with(inner, SL) /\ ~SetReaches(doc, tokens(inner))
                     \/ ~pointer_mut(doc, inner).some
        IN  fails => /\ stdout = println(arg.escaped, value_printer(arg.pretty, doc))
                     /\ value = doc

C2_Witness ==
    /\ IsSet
    /\ starts_with(Inner, SL)
    /\ Len(tokens(Inner)) = 2
    /\ ~SetReaches(InputDoc, tokens(Inner))
    /\ InputDoc.t = "object"
    /\ PrintedDoc = InputDoc

\* C3: get prints the addressed sub-value exactly when every token resolves in
\* turn (a present key of an Object, a valid index within the bounds of an
\* Array) and prints the empty string otherwise: never a default value; the
\* document is not altered.
C3_GetResolvesOrPrintsNothing ==
    IsGet =>
        LET doc == InputDoc
            inner == Inner
            r == IF inner = <<>> THEN [ok |-> TRUE, v |-> doc]
                 ELSE IF ~starts_with(inner, SL) THEN [ok |-> FALSE, v |-> Null]
                 ELSE Resolve(doc, tokens(inner))
        IN  /\ stdout.printed
            /\ stdout.escaped = arg.escaped
            /\ stdout.text = IF r.ok THEN value_printer(arg.pretty, r.v) ELSE EmptyString
            /\ value = doc
            /\ exit = Success

C3_Witness ==
    /\ IsGet
    /\ starts_with(Inner, SL)
    /\ Len(tokens(Inner)) = 2
    /\ InputDoc.t = "object"
    /\ Head(tokens(Inner)) \in Keys(InputDoc)
    /\ Bound(InputDoc, Head(tokens(Inner))).t = "array"
    /\ stdout.text = value_printer(arg.pretty, Number(1))

\* C4: each spelling of the empty pointer (the empty string, '' and "") is
\* parsed to the empty pointer: get prints the whole document, set prints
\* exactly the new value.
C4_EmptyPointerIsRoot ==
    ((IsGet \/ IsSet) /\ arg.pointer \in {<<>>, <<SQ, SQ>>, <<DQ, DQ>>})
    => /\ Inner = <<>>
       /\ IsGet => stdout = println(arg.escaped, value_printer(arg.pretty, InputDoc))
       /\ IsSet => /\ stdout = println(arg.escaped, value_printer(arg.pretty, NewValue))
                   /\ value = NewValue

C4_Witness ==
    /\ IsSet
    /\ arg.pointer = <<DQ, DQ>>
    /\ InputDoc.t = "object"
    /\ InputDoc.map # <<>>
    /\ PrintedDoc = Number(9)

\* The pointers that address a key of the root, "/" and the key escaped, each
\* with its key.
KeyPointers == {<<SL>> \o encode(k) : k \in EscKeys}
KeyOfPointer ==
    [p \in KeyPointers |-> CHOOSE k \in EscKeys : p = <<SL>> \o encode(k)]

\* C5: escaping a key ('~' to "~0", then '/' to "~1") and decoding it as the
\* pointer code does gives the key back, so the pointer "/" + encode(k)
\* addresses exactly the key k of an Object root: get prints the value bound to
\* k (nothing when k is absent), set binds k to the new value and leaves every
\* other key alone, and get with the same pointer on what set printed prints
\* the new value.
C5_EscapeRoundTrip ==
    ((IsGet \/ IsSet) /\ arg.pointer \in KeyPointers) =>
        LET k == KeyOfPointer[arg.pointer]
            doc == InputDoc
            out == PrintedDoc
        IN  /\ tokens(Inner) = <<k>>
            /\ (IsGet /\ doc.t = "object") =>
                  stdout.text = IF k \in Keys(doc)
                                THEN value_printer(arg.pretty, Bound(doc, k))
                                ELSE EmptyString
            /\ (IsSet /\ doc.t = "object") =>
                  /\ PrintsJson
                  /\ out.t = "object"
                  /\ Keys(out) = Keys(doc) \cup {k}
                  /\ Bound(out, k) = NewValue
                  /\ \A j \in Keys(doc) \ {k} : Bound(out, j) = Bound(doc, j)
                  /\ do_get([variable |-> stdout.text, pointer |-> arg.pointer],
                            arg.pretty) = value_printer(arg.pretty, NewValue)

C5_Witness ==
    /\ IsGet
    /\ arg.pointer = <<SL, TL, "0", "1">>
    /\ InputDoc.t = "object"
    /\ Kt1 \in Keys(InputDoc)
    /\ Kslash \in Keys(InputDoc)
    /\ stdout.text = value_printer(arg.pretty, String(Kt1))

\* No key is written twice in the text of an Object.
NoRepeatedKey(syn) == Cardinality(Keys(syn)) = Len(syn.map)

\* C6: compare is reflexive and symmetric and ignores the order in which the
\* keys of an Object are written: equal arguments print true, swapping the
\* arguments gives the same outcome, and two Objects written with the same
\* keys bound to the same values print true.
C6_CompareEquivalence ==
    IsCompare =>
        /\ (exit.code = 0) <=> (stdout = println(arg.escaped, Word("true")))
        /\ (arg.first = arg.second) => exit.code = 0
        /\ (exit.code = 0) <=>
              do_compare([first |-> arg.second, second |-> arg.first])
        /\ (/\ arg.first.k = "json" /\ arg.second.k = "json"
            /\ arg.first.syn.t = "object" /\ arg.second.syn.t = "object"
            /\ NoRepeatedKey(arg.first.syn) /\ NoRepeatedKey(arg.second.syn)
            /\ Keys(arg.first.syn) = Keys(arg.second.syn)
            /\ \A k \in Keys(arg.first.syn) :
                  Bound(arg.first.syn, k) = Bound(arg.second.syn, k))
           => exit.code = 0

C6_Witness ==
    /\ IsCompare
    /\ arg.first.k = "json" /\ arg.second.k = "json"
    /\ arg.first.syn.t = "object" /\ arg.second.syn.t = "object"
    /\ Len(arg.first.syn.map) = 2
    /\ Keys(arg.first.syn) = Keys(arg.second.syn)
    /\ arg.first.syn.map[1].key # arg.second.syn.map[1].key
    /\ stdout = println(arg.escaped, Word("true"))

\* C7: compare reports two inputs that are JSON values of different variants,
\* or two Arrays that differ in length or in an element at the same position,
\* as unequal: nothing printed, exit failure with the error "false".
C7_DifferentVariantsUnequal ==
    (/\ IsCompare
     /\ arg.first.k = "json" /\ arg.second.k = "json"
     /\ \/ arg.first.syn.t # arg.second.syn.t
        \/ /\ arg.first.syn.t = "array" /\ arg.second.syn.t = "array"
           /\ \/ Len(arg.first.syn.list) # Len(arg.second.syn.list)
              \/ \E i \in 1..Len(arg.first.syn.list) :
                    arg.first.syn.list[i] # arg.second.syn.list[i])
    => /\ exit = Failure("false")
       /\ stdout = NoOutput

\* The raw pointer with only a leading backslash-slash rewritten to '/'.
LeadingOnly(s) ==
    IF s \in {<<>>, <<SQ, SQ>>, <<DQ, DQ>>} THEN <<>>
    ELSE IF Len(s) >= 2 /\ s[1] = BS /\ s[2] = SL THEN Tail(s)
    ELSE s

\* C8: only a leading backslash-slash of the raw pointer is rewritten to '/';
\* a backslash-slash after the start reaches tokenization unchanged, so a key
\* that ends in a backslash stays addressable when another token follows it:
\* get and set print what the pointer rewritten at its start only addresses.
C8_OnlyLeadingBackslashSlash ==
    /\ IsGet =>
          LET p == LeadingOnly(arg.pointer)
              r == IF p = <<>> THEN [ok |-> TRUE, v |-> InputDoc]
                   ELSE IF ~starts_with(p, SL) THEN [ok |-> FALSE, v |-> Null]
                   ELSE Resolve(InputDoc, tokens(p))
          IN  stdout.text = IF r.ok THEN value_printer(arg.pretty, r.v)
                            ELSE EmptyString
    /\ IsSet =>
          LET val == pointer_mut(InputDoc, LeadingOnly(arg.pointer))
          IN  /\ PrintsJson
              /\ PrintedDoc = IF val.some THEN assign(val.doc, val.path, NewValue)
                              ELSE val.doc

\* C9 as stated: among the set command lines (with the switches of this run)
\* there is one whose traversal fails and whose printed document differs from
\* the input document as parsed.
C9_PartialWriteExists ==
    \E variable \in Variables, pointer \in RawPointers, val \in ValueTexts :
        LET line == SetLine([pretty |-> arg.pretty, escaped |-> arg.escaped],
                            variable, pointer, val)
            doc == variable_or_object(variable)
        IN  /\ value_from_str(val).ok
            /\ ~pointer_mut(doc, Pointer_from_str(pointer)).some
            /\ do_set(line, arg.pretty) # value_printer(arg.pretty, doc)

\* C9, amended: no set fails after a step of the same traversal has created a
\* key or replaced a scalar.  A set whose traversal fails has walked through
\* keys and elements the document already had up to an Array, the failing
\* token is an invalid or out-of-range index of that Array, and the document
\* printed is the document as parsed.
C9_NoPartialWrite ==
    (IsSet /\ starts_with(Inner, SL)) =>
        LET doc == InputDoc
            toks == tokens(Inner)
        IN  ~pointer_mut(doc, Inner).some
            => /\ \E i \in 1..Len(toks) :
                    LET before == Resolve(doc, SubSeq(toks, 1, i - 1))
                    IN  /\ before.ok
                        /\ before.v.t = "array"
                        /\ ~(/\ ValidIndex(toks[i])
                             /\ IndexOf(toks[i]) < Len(before.v.list))
               /\ PrintsJson
               /\ PrintedDoc = doc

C9_Witness ==
    /\ IsSet
    /\ starts_with(Inner, SL)
    /\ Len(tokens(Inner)) = 2
    /\ ~pointer_mut(InputDoc, Inner).some
    /\ Resolve(InputDoc, SubSeq(tokens(Inner), 1, 1)).ok
    /\ Resolve(InputDoc, SubSeq(tokens(Inner), 1, 1)).v.t = "array"
    /\ ValidIndex(tokens(Inner)[2])
    /\ PrintedDoc = InputDoc

\* C10: a set whose path has a token left at an existing Null, Boolean, Number
\* or String replaces that value by an Object whose only key is the token and
\* goes on, so the scalar ends up replaced by the chain of single-key Objects
\* over the remaining tokens that ends in the new value; a scalar at the final
\* location is replaced by the new value itself.
C10_ScalarReplaced ==
    (IsSet /\ starts_with(Inner, SL)) =>
        LET doc == InputDoc
            toks == tokens(Inner)
            out == PrintedDoc
        IN  /\ IsScalar(doc) => PrintsJson /\ out = Chain(toks, NewValue)
            /\ (/\ doc.t = "object"
                /\ Head(toks) \in Keys(doc)
                /\ IsScalar(Bound(doc, Head(toks))))
               => /\ PrintsJson
                  /\ out.t = "object"
                  /\ Len(out.map) = Len(doc.map)
                  /\ Keys(out) = Keys(doc)
                  /\ Bound(out, Head(toks)) = Chain(Tail(toks), NewValue)
                  /\ \A k \in Keys(doc) \ {Head(toks)} :
                        Bound(out, k) = Bound(doc, k)

C10_Witness ==
    /\ IsSet
    /\ starts_with(Inner, SL)
    /\ Len(tokens(Inner)) = 2
    /\ InputDoc.t = "object"
    /\ Head(tokens(Inner)) \in Keys(InputDoc)
    /\ Bound(InputDoc, Head(tokens(Inner))).t = "string"
    /\ Bound(PrintedDoc, Head(tokens(Inner))) =
          Object(<<Entry(tokens(Inner)[2], NewValue)>>)

\* What a set whose token tok is applied to the Array arr leaves in the place
\* of arr (out), rest being tok and the tokens after it.
ArrayStepOutcome(arr, out, rest) ==
    LET tok == Head(rest)
        ok == ValidIndex(tok) /\ IndexOf(tok) < Len(arr.list)
    IN  /\ parse_index(tok).some => ValidIndex(tok)
        /\ tok \in {<<>>, <<"-">>, <<"+">>, <<"+", "1">>, <<"-", "1">>,
                    <<"0", "1">>, <<"0", "0">>, <<"1", "a">>, Ka} => ~ok
        /\ out.t = "array"
        /\ Len(out.list) = Len(arr.list)
        /\ \A i \in 1..Len(arr.list) :
              (~ok \/ i # IndexOf(tok) + 1) => out.list[i] = arr.list[i]
        /\ (ok /\ Len(rest) = 1) => out.list[IndexOf(tok) + 1] = NewValue
        /\ ok => pointer_inner(arr, tok).child = IndexOf(tok) + 1
        /\ ~ok => /\ pointer_inner(arr, tok) = [target |-> arr, child |-> 0]
                  /\ PrintedDoc = InputDoc
                  /\ value = InputDoc

\* C11: a token applied to an Array reaches an element exactly when it is "0"
\* or a non-empty digit string with no leading zero and the number it writes is
\* below the length; the empty token, "-", a leading '+' or '-', a leading
\* zero followed by more digits and any non-digit character are rejected.  On
\* rejection or out of range the set prints the document as it was parsed, and
\* in every case the Array keeps its length and its other elements.
C11_ArrayIndex ==
    (IsSet /\ starts_with(Inner, SL)) =>
        LET doc == InputDoc
            toks == tokens(Inner)
            out == PrintedDoc
        IN  /\ PrintsJson
            /\ doc.t = "array" => ArrayStepOutcome(doc, out, toks)
            /\ (/\ doc.t = "object"
                /\ Len(toks) >= 2
                /\ Head(toks) \in Keys(doc)
                /\ Bound(doc, Head(toks)).t = "array")
               => /\ out.t = "object"
                  /\ Keys(out) = Keys(doc)
                  /\ ArrayStepOutcome(Bound(doc, Head(toks)),
                                      Bound(out, Head(toks)), Tail(toks))

\* A set through "+1" on an Array of two elements: rejected, nothing written.
C11_Witness ==
    /\ IsSet
    /\ InputDoc.t = "array"
    /\ Len(InputDoc.list) = 2
    /\ tokens(Inner) = <<<<"+", "1">>>>
    /\ NewValue = Number(9)
    /\ PrintedDoc = InputDoc

\* C12: get after set, through the text set printed (printed plainly, without
\* --escaped): when the set reaches the location its pointer addresses, get
\* with the same pointer on the printed text prints the value that was set.
C12_GetAfterSet ==
    (IsSet /\ ~arg.escaped /\ pointer_mut(InputDoc, Inner).some) =>
        do_get([variable |-> stdout.text, pointer |-> arg.pointer], arg.pretty)
            = value_printer(arg.pretty, NewValue)

====
